---- MODULE Spec2Model ----
(***************************************************************************)
(* A model of agent.py: the coroutine main(user_input, file_path).  One    *)
(* run reads the input file, calls the external runtime once, classifies   *)
(* the returned result.new_items into four note buckets, audits the tools  *)
(* that were used, prints the final output and writes the non-empty        *)
(* buckets as Markdown files under reviews/<derived-name>/.                *)
(*                                                                         *)
(* Texts on which the code computes character by character (tool names,    *)
(* paths) are tuples of one-character strings; texts the code only passes  *)
(* on (tool outputs, message fragments) are TLA+ strings.                  *)
(***************************************************************************)
EXTENDS Integers, Sequences, FiniteSets, TLC

VARIABLES
    pc,             \* position of main(): the statement group to run next
    error,          \* which statement group raised an uncaught exception
    file_path,      \* argument of main()                       (line 71)
    runner_invoked, \* Runner.run has been awaited               (line 90)
    new_items,      \* result.new_items                          (line 120)
    idx,            \* 1-based position of the for loop over new_items
    used_tools,     \* used_tools                                (line 118)
    id_to_tool,     \* id_to_tool                                (line 119)
    junior_notes,   \* junior_notes                              (line 97)
    senior_notes,   \* senior_notes                              (line 98)
    manager_notes,  \* manager_notes                             (line 99)
    planning_notes, \* planning_notes                            (line 100)
    stdout,         \* the lines print() has emitted, as tags
    review_dir,     \* review_dir                                (line 185)
    dirs,           \* the directories that exist under reviews/
    created,        \* the directories os.makedirs created in this run
    files,          \* the four report files of reviews/<derived-name>/
    opened          \* the report files open(..., "w") was called on in this run

vars == <<pc, error, file_path, runner_invoked, new_items, idx, used_tools,
          id_to_tool, junior_notes, senior_notes, manager_notes,
          planning_notes, stdout, review_dir, dirs, created, files, opened>>

----------------------------------------------------------------------------
(* Bounds of the model *)

\* the longest event sequence the runtime returns
MaxEvents == 3

\* the largest number of path segments of an input path (SpecPath)
MaxSegs == 4

----------------------------------------------------------------------------
(* Character-level helpers: str.lower, the `in` substring test, str.split,
   str.join, str.replace and os.path.splitext *)

Range(s) == {s[i] : i \in 1..Len(s)}

UpperChars == <<"A","B","C","D","E","F","G","H","I","J","K","L","M",
                "N","O","P","Q","R","S","T","U","V","W","X","Y","Z">>
LowerChars == <<"a","b","c","d","e","f","g","h","i","j","k","l","m",
                "n","o","p","q","r","s","t","u","v","w","x","y","z">>

LowerChar(c) ==
    IF \E i \in 1..26 : UpperChars[i] = c
    THEN LowerChars[CHOOSE i \in 1..26 : UpperChars[i] = c]
    ELSE c

\* a lower() that leaves the text as it is
LowerUnchanged(s) == s

\* str.lower()
Lower(s) == [i \in 1..Len(s) |-> LowerChar(s[i])]

\* sub in s
Contains(s, sub) ==
    \E i \in 1..(Len(s) - Len(sub) + 1) : SubSeq(s, i, i + Len(sub) - 1) = sub

RECURSIVE Split(_, _)
\* s.split(sep) for a one-character sep
Split(s, sep) ==
    IF \A i \in 1..Len(s) : s[i] # sep
    THEN <<s>>
    ELSE LET k == CHOOSE i \in 1..Len(s) :
                      s[i] = sep /\ \A j \in 1..(i - 1) : s[j] # sep
         IN  <<SubSeq(s, 1, k - 1)>> \o Split(SubSeq(s, k + 1, Len(s)), sep)

RECURSIVE Join(_, _)
\* sep.join(parts) on character tuples
Join(sep, parts) ==
    IF parts = <<>> THEN <<>>
    ELSE IF Len(parts) = 1 THEN parts[1]
    ELSE parts[1] \o sep \o Join(sep, Tail(parts))

\* a replace() that leaves the text as it is
ReplaceUnchanged(s, old, new) == s

\* s.replace(old, new) for one-character old and new
Replace(s, old, new) == [i \in 1..Len(s) |-> IF s[i] = old THEN new ELSE s[i]]

\* parts[-3:]
LastThree(parts) ==
    IF Len(parts) <= 3 THEN parts ELSE SubSeq(parts, Len(parts) - 2, Len(parts))

\* os.path.splitext(p)[0]: the text before the last dot of the last path
\* component, unless that component has nothing but dots before it
SplitextRoot(p) ==
    LET sepIdx == IF \E i \in 1..Len(p) : p[i] = "/"
                  THEN CHOOSE i \in 1..Len(p) :
                           p[i] = "/" /\ \A j \in (i + 1)..Len(p) : p[j] # "/"
                  ELSE 0
        dotIdx == IF \E i \in 1..Len(p) : p[i] = "."
                  THEN CHOOSE i \in 1..Len(p) :
                           p[i] = "." /\ \A j \in (i + 1)..Len(p) : p[j] # "."
                  ELSE 0
    IN  IF dotIdx > sepIdx /\ \E j \in (sepIdx + 1)..(dotIdx - 1) : p[j] # "."
        THEN SubSeq(p, 1, dotIdx - 1)
        ELSE p

\* lines 181-184: the derived name of the review directory
ReviewBase(path) ==
    SplitextRoot(Replace(Join(<<"_">>, LastThree(Split(path, "/"))), ".", "_"))

\* line 185: os.path.join("reviews", base)
ReviewDir(path) == <<"r","e","v","i","e","w","s","/">> \o ReviewBase(path)

----------------------------------------------------------------------------
(* The event records of result.new_items.  `has` names the attributes (or
   keys) the record carries; reading one it lacks raises. *)

JuniorTool == <<"j","u","n","i","o","r","_","d","e","v","e","l","o","p","e","r",
                "_","a","g","e","n","t">>
SeniorTool == <<"s","e","n","i","o","r","_","d","e","v","e","l","o","p","e","r",
                "_","a","g","e","n","t">>
\* a tool name carrying both persona words, in mixed case
MixedTool  == <<"J","u","n","i","o","r","_","S","e","n","i","o","r">>

\* a tool name carrying neither persona word
LinterTool == <<"l","i","n","t","e","r">>

JuniorWord == <<"j","u","n","i","o","r">>
SeniorWord == <<"s","e","n","i","o","r">>

ToolCall(name, call_id, has) ==
    [type |-> "tool_call_item", has |-> has, name |-> name,
     call_id |-> call_id, output |-> "", content |-> <<>>]

ToolResult(call_id, output, has) ==
    [type |-> "tool_call_output_item", has |-> has, name |-> <<>>,
     call_id |-> call_id, output |-> output, content |-> <<>>]

\* one element of raw_item.content: a text fragment, or a part without .text
TextChunk(t) == [has_text |-> TRUE, text |-> t]
RefusalChunk == [has_text |-> FALSE, text |-> ""]

Message(content) ==
    [type |-> "message_output_item", has |-> {"content"}, name |-> <<>>,
     call_id |-> 0, output |-> "", content |-> content]

Reasoning ==
    [type |-> "reasoning_item", has |-> {"raw_item"}, name |-> <<>>,
     call_id |-> 0, output |-> "", content |-> <<>>]

\* an item of a kind the loop has no branch for
OtherItem ==
    [type |-> "handoff_output_item", has |-> {}, name |-> <<>>,
     call_id |-> 0, output |-> "", content |-> <<>>]

CallFields   == {"name", "call_id", "arguments"}
ResultFields == {"call_id", "output"}

\* the events a returned sequence is drawn from
EventUniverse ==
    { ToolCall(JuniorTool, 1, CallFields),
      ToolCall(SeniorTool, 1, CallFields),
      ToolCall(MixedTool, 2, CallFields),
      ToolCall(LinterTool, 2, CallFields),
      ToolCall(JuniorTool, 1, CallFields \ {"name"}),
      ToolCall(JuniorTool, 1, CallFields \ {"call_id"}),
      ToolCall(SeniorTool, 2, CallFields \ {"arguments"}),
      ToolResult(1, "x", ResultFields),
      ToolResult(1, "y", ResultFields),
      ToolResult(2, "x", ResultFields),
      ToolResult(1, "x", ResultFields \ {"call_id"}),
      ToolResult(1, "x", ResultFields \ {"output"}),
      Message(<<TextChunk("x"), TextChunk("y")>>),
      Message(<<TextChunk("y")>>),
      Message(<<RefusalChunk>>),
      Reasoning,
      OtherItem }

RECURSIVE SeqsUpTo(_, _)
\* the sequences over S of length at most n
SeqsUpTo(S, n) ==
    IF n = 0 THEN {<<>>}
    ELSE LET shorter == SeqsUpTo(S, n - 1)
         IN  shorter \cup {Append(s, e) : s \in {t \in shorter : Len(t) = n - 1}, e \in S}

Traces == SeqsUpTo(EventUniverse, MaxEvents)

----------------------------------------------------------------------------
(* The file system under reviews/ *)

FileNames == <<"junior_review.md", "senior_review.md",
               "manager_review.md", "planner_review.md">>

Absent == [exists |-> FALSE, data |-> <<>>]

\* what an earlier run left in a report file
OldFile == [exists |-> TRUE, data |-> <<"# Old\n\n", "old", "\n\n">>]

\* the control positions of main() after which nothing more happens
Terminal == {"done", "aborted", "raised"}

\* the statement groups of main() from line 117 on, in program order
ProgramOrder == <<"classify", "audit", "final", "derive", "makedirs",
                  "write_junior", "write_senior", "write_manager",
                  "write_planner", "done">>

\* an order that emits the final output after the reports are written
FinalLastOrder == <<"classify", "audit", "derive", "makedirs",
                    "write_junior", "write_senior", "write_manager",
                    "write_planner", "final", "done">>

StepAfter(order, p) ==
    order[(CHOOSE i \in 1..Len(order) : order[i] = p) + 1]

\* a successor relation that moves the final output behind the writer
AfterFinalLast(p) == StepAfter(FinalLastOrder, p)

\* the statement group that follows p in main()
After(p) == StepAfter(ProgramOrder, p)

\* the paths main() is started with in Spec
MainPaths == { <<"a","/","b","/","m",".","p","y">> }

Init ==
    /\ pc = "read"
    /\ error = "none"
    /\ file_path \in MainPaths
    /\ runner_invoked = FALSE
    /\ new_items = <<>>
    /\ idx = 1
    /\ used_tools = {}
    /\ id_to_tool = <<>>
    /\ junior_notes = <<>>
    /\ senior_notes = <<>>
    /\ manager_notes = <<>>
    /\ planning_notes = <<>>
    /\ stdout = <<>>
    /\ review_dir = <<>>
    /\ created = {}
    /\ opened = {}
    /\ \/ dirs = {} /\ files = [i \in 1..4 |-> Absent]
       \/ dirs = {ReviewDir(file_path)} /\ files = [i \in 1..4 |-> OldFile]

----------------------------------------------------------------------------
(* Helpers of the classification loop *)

\* list.insert(0, note): a note put in front of the bucket
Prepend(bucket, note) == <<note>> \o bucket

\* list.append(note), lines 144, 146, 155 and 164
AddNote(bucket, note) == Append(bucket, note)

\* id_to_tool.get(call_id, "")
Get(map, key) == IF key \in DOMAIN map THEN map[key] ELSE <<>>

\* id_to_tool[call_id] = tool_name
Put(map, key, value) ==
    [k \in (DOMAIN map) \cup {key} |-> IF k = key THEN value ELSE map[k]]

RECURSIVE JoinLines(_)
\* "\n".join([c.text for c in chunks])
JoinLines(chunks) ==
    IF chunks = <<>> THEN ""
    ELSE IF Len(chunks) = 1 THEN chunks[1].text
    ELSE chunks[1].text \o "\n" \o JoinLines(Tail(chunks))

\* str(item.raw_item) of a reasoning item
ReasoningText == "ResponseReasoningItem(...)"

\* the loop goes on with item i, or is over
LoopPc(i, items) == IF i > Len(items) THEN After("classify") ELSE "classify"

\* an uncaught exception ends main()
Raise(where) == pc' = "raised" /\ error' = where

Item == new_items[idx]

InLoop == pc = "classify" /\ idx <= Len(new_items)

----------------------------------------------------------------------------
(* Lines 73-81: read the input file *)

\* the except branches print and fall through instead of returning
ReadFileNoReturn ==
    /\ pc = "read"
    /\ \E outcome \in {"ok", "not_found", "unreadable"} :
          /\ stdout' = IF outcome = "ok" THEN stdout
                       ELSE IF outcome = "not_found"
                            THEN Append(stdout, "Error: File not found")
                            ELSE Append(stdout, "Error reading file")
          /\ pc' = "run"
    /\ UNCHANGED <<error, file_path, runner_invoked, new_items, idx,
                   used_tools, id_to_tool, junior_notes, senior_notes,
                   manager_notes, planning_notes, review_dir, dirs, created,
                   files, opened>>

ReadFile ==
    /\ pc = "read"
    /\ \E outcome \in {"ok", "not_found", "unreadable"} :
          /\ stdout' = IF outcome = "ok" THEN stdout
                       ELSE IF outcome = "not_found"
                            THEN Append(stdout, "Error: File not found")
                            ELSE Append(stdout, "Error reading file")
          /\ pc' = IF outcome = "ok" THEN "run" ELSE "aborted"
    /\ UNCHANGED <<error, file_path, runner_invoked, new_items, idx,
                   used_tools, id_to_tool, junior_notes, senior_notes,
                   manager_notes, planning_notes, review_dir, dirs, created,
                   files, opened>>

(* Lines 84-118: the one call of the external runtime, which returns a result
   or fails; then the buckets are created and the result is printed *)
RunnerRun ==
    /\ pc = "run"
    /\ runner_invoked' = TRUE
    /\ \/ \E t \in Traces :
             /\ new_items' = t
             /\ idx' = 1
             /\ used_tools' = {}
             /\ id_to_tool' = <<>>
             /\ junior_notes' = <<>>
             /\ senior_notes' = <<>>
             /\ manager_notes' = <<>>
             /\ planning_notes' = <<>>
             /\ stdout' = stdout \o <<"Manager Agent initiated", "result", "Debugging">>
             /\ pc' = LoopPc(1, t)
             /\ UNCHANGED error
       \/ /\ Raise("runner")
          /\ UNCHANGED <<new_items, idx, used_tools, id_to_tool, junior_notes,
                         senior_notes, manager_notes, planning_notes, stdout>>
    /\ UNCHANGED <<file_path, review_dir, dirs, created, files, opened>>

(* Lines 122-133: a tool was invoked *)
ClassifyToolCall ==
    /\ InLoop
    /\ Item.type = "tool_call_item"
    /\ IF "name" \notin Item.has \/ "call_id" \notin Item.has
       THEN /\ Raise("classify")
            /\ UNCHANGED <<idx, used_tools, id_to_tool, stdout>>
       ELSE /\ id_to_tool' = Put(id_to_tool, Item.call_id, Item.name)
            /\ used_tools' = used_tools \cup {Item.name}
            /\ stdout' = Append(stdout, "[TOOL CALL]")
            /\ IF "arguments" \notin Item.has
               THEN Raise("classify") /\ UNCHANGED idx
               ELSE /\ idx' = idx + 1
                    /\ pc' = LoopPc(idx + 1, new_items)
                    /\ UNCHANGED error
    /\ UNCHANGED <<file_path, runner_invoked, new_items, junior_notes,
                   senior_notes, manager_notes, planning_notes, review_dir,
                   dirs, created, files, opened>>

(* Lines 135-146: a tool responded *)
ClassifyToolResult ==
    /\ InLoop
    /\ Item.type = "tool_call_output_item"
    /\ stdout' = Append(stdout, "[TOOL RESULT]")
    /\ IF "call_id" \notin Item.has \/ "output" \notin Item.has
       THEN /\ Raise("classify")
            /\ UNCHANGED <<idx, junior_notes, senior_notes>>
       ELSE LET tool_name == Lower(Get(id_to_tool, Item.call_id))
            IN  /\ IF Contains(tool_name, JuniorWord)
                   THEN /\ junior_notes' = AddNote(junior_notes, Item.output)
                        /\ UNCHANGED senior_notes
                   ELSE IF Contains(tool_name, SeniorWord)
                   THEN /\ senior_notes' = AddNote(senior_notes, Item.output)
                        /\ UNCHANGED junior_notes
                   ELSE UNCHANGED <<junior_notes, senior_notes>>
                /\ idx' = idx + 1
                /\ pc' = LoopPc(idx + 1, new_items)
                /\ UNCHANGED error
    /\ UNCHANGED <<file_path, runner_invoked, new_items, used_tools,
                   id_to_tool, manager_notes, planning_notes, review_dir,
                   dirs, created, files, opened>>

(* Lines 148-159: a message of the manager.  A content that is missing, or
   holds a part without .text, raises inside the try and appends nothing *)
ClassifyMessage ==
    /\ InLoop
    /\ Item.type = "message_output_item"
    /\ stdout' = Append(stdout, "[FINAL MESSAGE FRAGMENT]")
    /\ IF "content" \in Item.has
          /\ \A i \in 1..Len(Item.content) : Item.content[i].has_text
       THEN manager_notes' = AddNote(manager_notes, JoinLines(Item.content))
       ELSE UNCHANGED manager_notes
    /\ idx' = idx + 1
    /\ pc' = LoopPc(idx + 1, new_items)
    /\ UNCHANGED <<error, file_path, runner_invoked, new_items, used_tools,
                   id_to_tool, junior_notes, senior_notes, planning_notes,
                   review_dir, dirs, created, files, opened>>

(* Lines 161-165: internal planning *)
ClassifyReasoning ==
    /\ InLoop
    /\ Item.type = "reasoning_item"
    /\ planning_notes' = AddNote(planning_notes, ReasoningText)
    /\ idx' = idx + 1
    /\ pc' = LoopPc(idx + 1, new_items)
    /\ UNCHANGED <<error, file_path, runner_invoked, new_items, used_tools,
                   id_to_tool, junior_notes, senior_notes, manager_notes,
                   stdout, review_dir, dirs, created, files, opened>>

(* Lines 121-161: an item of any other type matches no branch *)
ClassifyOther ==
    /\ InLoop
    /\ Item.type \notin {"tool_call_item", "tool_call_output_item",
                         "message_output_item", "reasoning_item"}
    /\ idx' = idx + 1
    /\ pc' = LoopPc(idx + 1, new_items)
    /\ UNCHANGED <<error, file_path, runner_invoked, new_items, used_tools,
                   id_to_tool, junior_notes, senior_notes, manager_notes,
                   planning_notes, stdout, review_dir, dirs, created, files,
                   opened>>

----------------------------------------------------------------------------
(* Lines 168-175: the tool-usage audit *)

\* required (line 172)
Required == {JuniorTool, SeniorTool}

Audit ==
    /\ pc = "audit"
    /\ stdout' = IF Required \subseteq used_tools
                 THEN Append(stdout, "TOOLS USED")
                 ELSE stdout \o <<"TOOLS USED", "WARNING">>
    /\ pc' = After("audit")
    /\ UNCHANGED <<error, file_path, runner_invoked, new_items, idx,
                   used_tools, id_to_tool, junior_notes, senior_notes,
                   manager_notes, planning_notes, review_dir, dirs, created,
                   files, opened>>

(* Lines 177-178: print(result.final_output) *)
PrintFinal ==
    /\ pc = "final"
    /\ stdout' = Append(stdout, "FINAL OUTPUT")
    /\ pc' = After("final")
    /\ UNCHANGED <<error, file_path, runner_invoked, new_items, idx,
                   used_tools, id_to_tool, junior_notes, senior_notes,
                   manager_notes, planning_notes, review_dir, dirs, created,
                   files, opened>>

(* Lines 181-185: the review directory of the input path *)
DeriveDir ==
    /\ pc = "derive"
    /\ review_dir' = ReviewDir(file_path)
    /\ pc' = After("derive")
    /\ UNCHANGED <<error, file_path, runner_invoked, new_items, idx,
                   used_tools, id_to_tool, junior_notes, senior_notes,
                   manager_notes, planning_notes, stdout, dirs, created,
                   files, opened>>

(* Line 186: os.makedirs(review_dir, exist_ok=True), which may fail *)
MakeDirs ==
    /\ pc = "makedirs"
    /\ \/ /\ dirs' = dirs \cup {review_dir}
          /\ created' = created \cup ({review_dir} \ dirs)
          /\ pc' = After("makedirs")
          /\ UNCHANGED error
       \/ /\ Raise("makedirs")
          /\ UNCHANGED <<dirs, created>>
    /\ UNCHANGED <<file_path, runner_invoked, new_items, idx, used_tools,
                   id_to_tool, junior_notes, senior_notes, manager_notes,
                   planning_notes, stdout, review_dir, files, opened>>

----------------------------------------------------------------------------
(* Lines 195-228: the four report files *)

RECURSIVE NoteWrites(_)
\* for note in notes: f.write(note); f.write("\n\n")
NoteWrites(notes) ==
    IF notes = <<>> THEN <<>>
    ELSE <<Head(notes), "\n\n">> \o NoteWrites(Tail(notes))

\* what the write calls of one with-block put into the file
ReportData(heading, notes) == <<heading>> \o NoteWrites(notes)

\* a writer that writes every bucket, empty or not
WriteAlways(notes) == TRUE

\* `if junior_notes:` and its three siblings
ShouldWrite(notes) == notes # <<>>

SavedTag(i) == "saved " \o FileNames[i]

(* One `if notes: with open(fn, "w") as f: ...` block.  open() may fail,
   which leaves the file as it was, and a write may fail after open() has
   truncated the file, which leaves a part of the data. *)
WriteReport(i, here, heading, notes) ==
    /\ pc = here
    /\ IF ~ShouldWrite(notes)
       THEN /\ pc' = After(here)
            /\ UNCHANGED <<error, files, opened, stdout>>
       ELSE /\ opened' = opened \cup {FileNames[i]}
            /\ \/ /\ files' = [files EXCEPT ![i] =
                                  [exists |-> TRUE, data |-> ReportData(heading, notes)]]
                  /\ stdout' = Append(stdout, SavedTag(i))
                  /\ pc' = After(here)
                  /\ UNCHANGED error
               \/ /\ Raise("write")
                  /\ UNCHANGED <<files, stdout>>
               \/ /\ \E k \in 0..(Len(ReportData(heading, notes)) - 1) :
                        files' = [files EXCEPT ![i] =
                                     [exists |-> TRUE,
                                      data |-> SubSeq(ReportData(heading, notes), 1, k)]]
                  /\ Raise("write")
                  /\ UNCHANGED stdout
    /\ UNCHANGED <<file_path, runner_invoked, new_items, idx, used_tools,
                   id_to_tool, junior_notes, senior_notes, manager_notes,
                   planning_notes, review_dir, dirs, created>>

WriteJunior ==
    WriteReport(1, "write_junior", "# Junior Developer Review\n\n", junior_notes)

WriteSenior ==
    WriteReport(2, "write_senior", "# Senior Developer Review\n\n", senior_notes)

WriteManager ==
    WriteReport(3, "write_manager", "# Manager Notes\n\n", manager_notes)

WritePlanner ==
    WriteReport(4, "write_planner", "# Planner Notes\n\n", planning_notes)

----------------------------------------------------------------------------
(* One run of main() *)

Next ==
    \/ ReadFile
    \/ RunnerRun
    \/ ClassifyToolCall
    \/ ClassifyToolResult
    \/ ClassifyMessage
    \/ ClassifyReasoning
    \/ ClassifyOther
    \/ Audit
    \/ PrintFinal
    \/ DeriveDir
    \/ MakeDirs
    \/ WriteJunior
    \/ WriteSenior
    \/ WriteManager
    \/ WritePlanner

Spec == Init /\ [][Next]_vars

----------------------------------------------------------------------------
(* The derived directory name on its own: main() at line 181, started with
   any path of up to MaxSegs segments, after a run that returned no events *)

Segments == { <<>>, <<"a">>, <<"b",".","c">>, <<"f",".","p","y">>, <<".","h">> }

Paths == {Join(<<"/">>, segs) : segs \in SeqsUpTo(Segments, MaxSegs) \ {<<>>}}

InitPath ==
    /\ pc = "derive"
    /\ error = "none"
    /\ file_path \in Paths
    /\ runner_invoked = TRUE
    /\ new_items = <<>>
    /\ idx = 1
    /\ used_tools = {}
    /\ id_to_tool = <<>>
    /\ junior_notes = <<>>
    /\ senior_notes = <<>>
    /\ manager_notes = <<>>
    /\ planning_notes = <<>>
    /\ stdout = <<"Manager Agent initiated", "result", "Debugging",
                  "TOOLS USED", "WARNING", "FINAL OUTPUT">>
    /\ review_dir = <<>>
    /\ dirs = {}
    /\ created = {}
    /\ files = [i \in 1..4 |-> Absent]
    /\ opened = {}

NextPath ==
    \/ DeriveDir
    \/ MakeDirs

SpecPath == InitPath /\ [][NextPath]_vars

----------------------------------------------------------------------------
(* What the properties below read off a state *)

\* the number of items of new_items the loop has handled completely
Handled == idx - 1

Printed(line) == line \in Range(stdout)

Bucket(i) ==
    CASE i = 1 -> junior_notes
      [] i = 2 -> senior_notes
      [] i = 3 -> manager_notes
      [] i = 4 -> planning_notes

Saved(i) == Printed(SavedTag(i))

\* the persona words of the tool names, stated name by name
NameHasJunior(n) == n \in {JuniorTool, MixedTool}
NameHasSenior(n) == n \in {SeniorTool, MixedTool}

IsCall(j)   == new_items[j].type = "tool_call_item"
IsResult(j) == new_items[j].type = "tool_call_output_item"

\* the name of the last tool invocation before item j that carries item j's
\* call id; the empty name when there is none
InvokedName(j) ==
    LET before == {i \in 1..(j - 1) :
                      IsCall(i) /\ new_items[i].call_id = new_items[j].call_id}
    IN  IF before = {} THEN <<>>
        ELSE new_items[CHOOSE i \in before : \A k \in before : k <= i].name

PersonaAt(j) ==
    IF NameHasJunior(InvokedName(j)) THEN "junior"
    ELSE IF NameHasSenior(InvokedName(j)) THEN "senior"
    ELSE "none"

RECURSIVE ResultsFor(_, _)
\* the outputs of the tool results among the first n items whose invocation
\* belongs to the persona, in the order of the items
ResultsFor(persona, n) ==
    IF n = 0 THEN <<>>
    ELSE IF IsResult(n) /\ PersonaAt(n) = persona
         THEN Append(ResultsFor(persona, n - 1), new_items[n].output)
         ELSE ResultsFor(persona, n - 1)

HasText(j) ==
    /\ new_items[j].type = "message_output_item"
    /\ \A k \in 1..Len(new_items[j].content) : new_items[j].content[k].has_text

RECURSIVE MessagesIn(_)
\* the texts of the messages among the first n items, in the order of the items
MessagesIn(n) ==
    IF n = 0 THEN <<>>
    ELSE IF HasText(n)
         THEN Append(MessagesIn(n - 1), JoinLines(new_items[n].content))
         ELSE MessagesIn(n - 1)

RECURSIVE ReasoningIn(_)
ReasoningIn(n) ==
    IF n = 0 THEN <<>>
    ELSE IF new_items[n].type = "reasoning_item"
         THEN Append(ReasoningIn(n - 1), ReasoningText)
         ELSE ReasoningIn(n - 1)

\* what the events of the sequence, taken in their order, put into bucket i
NotesInEventOrder(i) ==
    CASE i = 1 -> ResultsFor("junior", Handled)
      [] i = 2 -> ResultsFor("senior", Handled)
      [] i = 3 -> MessagesIn(Handled)
      [] i = 4 -> ReasoningIn(Handled)

\* the notes of a report file: every second write after the heading
FileNotes(data) == [k \in 1..((Len(data) - 1) \div 2) |-> data[2 * k]]

\* the tool names of the tool invocations of the whole sequence
InvokedNames == {new_items[j].name : j \in {i \in 1..Len(new_items) : IsCall(i)}}

----------------------------------------------------------------------------
(* C1 *)

\* C1, as stated: for every tool invocation that a handled tool result with
\* the same call id follows, the output is in the junior bucket when the
\* invoked name contains "junior", in the senior bucket when it contains
\* "senior", and no result is in both review buckets.
C1_ResultGoesToEveryNamedPersona ==
    /\ \A i \in 1..Handled : \A j \in (i + 1)..Handled :
          (/\ IsCall(i)
           /\ IsResult(j)
           /\ new_items[i].call_id = new_items[j].call_id)
          => /\ NameHasJunior(new_items[i].name)
                  => new_items[j].output \in Range(junior_notes)
             /\ NameHasSenior(new_items[i].name)
                  => new_items[j].output \in Range(senior_notes)
    /\ Len(junior_notes) + Len(senior_notes)
          <= Cardinality({j \in 1..Handled : IsResult(j)})

\* C1, amended: at every point of the run the junior bucket holds exactly the
\* outputs of the handled tool results whose call id was last invoked under a
\* name containing "junior" (in any case), the senior bucket those whose name
\* contains "senior" and not "junior", and no tool result adds an entry to
\* the manager or planning bucket.
C1_ResultGoesToLatestInvokedPersona ==
    /\ junior_notes = ResultsFor("junior", Handled)
    /\ senior_notes = ResultsFor("senior", Handled)
    /\ Len(manager_notes) = Cardinality({j \in 1..Handled : HasText(j)})
    /\ Len(planning_notes) =
          Cardinality({j \in 1..Handled : new_items[j].type = "reasoning_item"})

\* a result whose call id was invoked for the junior and then for the senior
\* has gone to the senior bucket only
C1_Witness ==
    /\ Handled = 3
    /\ IsCall(1) /\ new_items[1].name = JuniorTool
    /\ IsCall(2) /\ new_items[2].name = SeniorTool
    /\ new_items[1].call_id = new_items[2].call_id
    /\ IsResult(3) /\ new_items[3].call_id = new_items[1].call_id
    /\ senior_notes = <<new_items[3].output>>
    /\ junior_notes = <<>>

----------------------------------------------------------------------------
(* C2 *)

\* C2: once the input error is reported, the run has ended without invoking
\* Runner.run, without creating a directory and without opening a report file.
C2_InputErrorEndsRun ==
    (stdout # <<>> /\ stdout[1] \in {"Error: File not found", "Error reading file"})
    => /\ pc = "aborted"
       /\ ~runner_invoked
       /\ created = {}
       /\ opened = {}
       /\ Len(stdout) = 1

C2_Witness == pc = "aborted" /\ stdout = <<"Error: File not found">>

----------------------------------------------------------------------------
(* C3 *)

\* C3: when the run has ended after classification, each of the four report
\* files has been written if and only if its bucket is non-empty.
C3_FileWrittenIffBucketNonEmpty ==
    (pc \in {"done", "raised"} /\ error \in {"none", "write"})
    => \A i \in 1..4 : (FileNames[i] \in opened) <=> (Bucket(i) # <<>>)

----------------------------------------------------------------------------
(* C4 *)

\* C4: the notes of every report file the run has saved are the notes the
\* events of the sequence produce for its bucket, in the order of the events.
C4_FileKeepsEventOrder ==
    \A i \in 1..4 :
        Saved(i) => FileNotes(files[i].data) = NotesInEventOrder(i)

\* two different junior results, saved in their order
C4_Witness ==
    /\ Saved(1)
    /\ Len(junior_notes) = 2
    /\ junior_notes[1] # junior_notes[2]
    /\ FileNotes(files[1].data) = junior_notes

----------------------------------------------------------------------------
(* C5 *)

\* C5: classifying an event sequence never raises.
C5_ClassificationNeverRaises == error # "classify"

----------------------------------------------------------------------------
(* C6 *)

\* C6: when the write of one report file has failed, the writer has still
\* attempted the file of every other non-empty bucket.
C6_WriteFailureIsIsolated ==
    (pc = "raised" /\ error = "write")
    => \A i \in 1..4 : Bucket(i) # <<>> => FileNames[i] \in opened

----------------------------------------------------------------------------
(* C7 *)

\* C7, as stated: the final output is emitted only after report writing.
C7_FinalOutputAfterReports ==
    Printed("FINAL OUTPUT") => pc = "done"

\* C7, amended: the audit runs only after every event is classified, the
\* final output is emitted only after the audit, and the review directory is
\* derived and created and the report files are opened only after the final
\* output is emitted.
C7_ClassifyAuditFinalReports ==
    /\ Printed("TOOLS USED") => Handled = Len(new_items)
    /\ Printed("FINAL OUTPUT") => Printed("TOOLS USED")
    /\ (review_dir # <<>> \/ created # {} \/ opened # {}) => Printed("FINAL OUTPUT")

C7_Witness ==
    /\ pc = "done"
    /\ opened # {}
    /\ Printed("FINAL OUTPUT")
    /\ Len(new_items) = MaxEvents

----------------------------------------------------------------------------
(* C8 *)

\* C8: when the run has ended and the sequence holds no tool invocation, the
\* audit has reported the required tools missing; and the warning has been
\* emitted exactly when the required set is not a subset of the invoked names.
C8_AuditReportsMissingTools ==
    (pc \in {"done", "raised"} /\ error # "runner")
    => /\ InvokedNames = {} => (used_tools = {} /\ Printed("WARNING"))
       /\ Printed("WARNING") <=> ~(Required \subseteq InvokedNames)

----------------------------------------------------------------------------
(* C9, under SpecPath *)

\* C9, as stated: the directory name is the last three path segments joined
\* by underscores, with the final extension removed.
C9_ExtensionRemoved ==
    review_dir # <<>>
    => review_dir = <<"r","e","v","i","e","w","s","/">>
                       \o SplitextRoot(Join(<<"_">>, LastThree(Split(file_path, "/"))))

\* C9, amended: the directory name is the last three path segments (all of
\* them when there are fewer) joined by underscores, with every dot turned
\* into an underscore and nothing removed.
C9_DotsBecomeUnderscores ==
    review_dir # <<>>
    => LET parts  == Split(file_path, "/")
           n      == Len(parts)
           joined == Join(<<"_">>, [k \in 1..(IF n < 3 THEN n ELSE 3) |->
                                        parts[(IF n < 3 THEN 0 ELSE n - 3) + k]])
       IN  review_dir = <<"r","e","v","i","e","w","s","/">>
                           \o [k \in 1..Len(joined) |->
                                  IF joined[k] = "." THEN "_" ELSE joined[k]]

\* a path of more than three segments whose file name has an extension
C9_Witness ==
    /\ review_dir # <<>>
    /\ Len(Split(file_path, "/")) > 3
    /\ "." \in Range(Split(file_path, "/")[Len(Split(file_path, "/"))])
    /\ Split(file_path, "/")[Len(Split(file_path, "/"))][1] # "."

----------------------------------------------------------------------------
(* C10 *)

\* C10: no step changes the report file of an empty bucket; a step that
\* changes a report file leaves in it nothing of its earlier content, and a
\* step that saves one leaves in it the heading and the notes of this run.
C10_EmptyBucketFileUntouched ==
    [][\A i \in 1..4 :
          /\ files'[i] # files[i]
                => /\ Bucket(i) # <<>>
                   /\ files'[i].exists
                   /\ \A k \in 1..Len(files'[i].data) :
                         files'[i].data[k] \notin {OldFile.data[1], OldFile.data[2]}
          /\ (Saved(i)' /\ ~Saved(i))
                => /\ FileNotes(files'[i].data) = Bucket(i)
                   /\ Len(files'[i].data) = 1 + 2 * Len(Bucket(i))]_vars

\* a later run has overwritten one report file and left another, whose
\* bucket is empty, with what the earlier run wrote
C10_Witness ==
    /\ pc = "done"
    /\ \E i \in 1..4 : Bucket(i) = <<>> /\ files[i] = OldFile
    /\ \E i \in 1..4 : Saved(i) /\ files[i] # OldFile

====
